---- MODULE Spec2Model ----
(***************************************************************************)
(* Model of the payments ledger engine (src/src/process.rs) driven by the  *)
(* main loop of src/src/main.rs, over the Amount type of src/src/amount.rs *)
(* narrowed from u64 to an unsigned W-bit integer.                         *)
(***************************************************************************)
EXTENDS Integers, FiniteSets, Sequences, TLC

\* ------------------------------------------------------------------ bounds
\* Width of Money in the model (u64 in the source).
W == 15

MoneyMax == 2^W - 1

\* Input domains of the events of Spec: two clients that share the TxIDs.
Clients == {1, 2}
TxIDs == {1, 2}
Amounts == {10000, 20000}

\* Input domains of the events of SpecOne: every event is addressed to client 1.
OneClient == {1}
OneTxIDs == {1, 2, 3}
OneAmounts == {0, 10000, 15000, 20000}

\* Input domains of the events of SpecSolo: two clients that share the TxIDs.
SoloTxIDs == {1}
SoloAmounts == {10000}

\* Input domain of the texts of SpecAmount: every text of up to MaxLen
\* characters of Alphabet ("-" stands for the characters that are neither a
\* digit, nor "+", nor ".").
MaxLen == 6
Alphabet == {"0", "1", "9", "+", "-", "."}

\* ------------------------------------------------------------ amount.rs
\* Option::None of the checked operations.
None == -1

checked_add(x, y) == IF x + y <= MoneyMax THEN x + y ELSE None

checked_sub(x, y) == IF x >= y THEN x - y ELSE None

\* A text is a sequence of one-character strings.
Digits == <<"0", "1", "2", "3", "4", "5", "6", "7", "8", "9">>
IsDigit(ch) == \E i \in 1..10 : Digits[i] = ch
digit(ch) == (CHOOSE i \in 1..10 : Digits[i] = ch) - 1

RECURSIVE digits_value(_)
digits_value(s) ==
    IF s = <<>> THEN 0
    ELSE 10 * digits_value(SubSeq(s, 1, Len(s) - 1)) + digit(s[Len(s)])

\* str::parse::<Money>: a "+" in front is dropped, what is left has to be
\* one digit or more, and a value above the maximum of Money is an error.
parse_Money(s) ==
    LET body == IF s # <<>> /\ s[1] = "+" THEN Tail(s) ELSE s
    IN  IF s = <<>> THEN [err |-> "Empty", val |-> None]
        ELSE IF body = <<>> \/ \E i \in 1..Len(body) : ~IsDigit(body[i])
             THEN [err |-> "InvalidDigit", val |-> None]
        ELSE IF digits_value(body) > MoneyMax
             THEN [err |-> "PosOverflow", val |-> None]
        ELSE [err |-> "none", val |-> digits_value(body)]

\* Money::checked_mul
checked_mul(x, y) == IF x * y <= MoneyMax THEN x * y ELSE None

\* s.split('.'): the parts of s between its dots.
RECURSIVE split(_)
split(s) ==
    IF \A i \in 1..Len(s) : s[i] # "." THEN <<s>>
    ELSE LET i == CHOOSE j \in 1..Len(s) :
                    s[j] = "." /\ \A k \in 1..(j - 1) : s[k] # "."
         IN  <<SubSeq(s, 1, i - 1)>> \o split(SubSeq(s, i + 1, Len(s)))

RECURSIVE trim_end_matches(_, _)
trim_end_matches(s, ch) ==
    IF s # <<>> /\ s[Len(s)] = ch
    THEN trim_end_matches(SubSeq(s, 1, Len(s) - 1), ch)
    ELSE s

\* The 0.0001 of the minimal representable amount, and its digits.
Scale == 10000
FractionDigits == 4

ParseAmountError == {"Parse", "TooLarge", "MultipleDots", "TooPrecise"}
PanicMultiply == "attempt to multiply with overflow"

Parsed(res, x) == [res |-> res, amount |-> x]

\* The [ips] arm of Amount::from_str. Its multiplication is unchecked: with
\* overflow checks compiled in it panics, without them it wraps.
from_str_whole(ips, overflow_checks) ==
    LET x == parse_Money(ips)
    IN  IF x.err # "none" THEN Parsed("Parse", None)
        ELSE IF x.val * Scale <= MoneyMax THEN Parsed("Ok", x.val * Scale)
        ELSE IF overflow_checks THEN Parsed(PanicMultiply, None)
        ELSE Parsed("Ok", (x.val * Scale) % (MoneyMax + 1))

\* from_str_fraction as it would be if it did not pad the fraction to 4 digits.
from_str_fraction_unpadded(ips, fps0) ==
    LET ip == IF ips = <<>> THEN [err |-> "none", val |-> 0] ELSE parse_Money(ips)
        fps == trim_end_matches(fps0, "0")
        f == IF fps = <<>> THEN [err |-> "none", val |-> 0] ELSE parse_Money(fps)
    IN  IF ip.err # "none" THEN Parsed("Parse", None)
        ELSE IF Len(fps) > FractionDigits THEN Parsed("TooPrecise", None)
        ELSE IF f.err # "none" THEN Parsed("Parse", None)
        ELSE IF checked_mul(ip.val, Scale) = None THEN Parsed("TooLarge", None)
        ELSE IF checked_add(checked_mul(ip.val, Scale), f.val) = None
             THEN Parsed("TooLarge", None)
        ELSE Parsed("Ok", checked_add(checked_mul(ip.val, Scale), f.val))

\* The [ips, fps] arm of Amount::from_str.
from_str_fraction(ips, fps0) ==
    LET ip == IF ips = <<>> THEN [err |-> "none", val |-> 0] ELSE parse_Money(ips)
        fps == trim_end_matches(fps0, "0")
        f == IF fps = <<>> THEN [err |-> "none", val |-> 0] ELSE parse_Money(fps)
        fp == IF Len(fps) < FractionDigits
              THEN f.val * 10^(FractionDigits - Len(fps)) ELSE f.val
    IN  IF ip.err # "none" THEN Parsed("Parse", None)
        ELSE IF Len(fps) > FractionDigits THEN Parsed("TooPrecise", None)
        ELSE IF f.err # "none" THEN Parsed("Parse", None)
        ELSE IF checked_mul(ip.val, Scale) = None THEN Parsed("TooLarge", None)
        ELSE IF checked_add(checked_mul(ip.val, Scale), fp) = None
             THEN Parsed("TooLarge", None)
        ELSE Parsed("Ok", checked_add(checked_mul(ip.val, Scale), fp))

\* Amount::from_str
from_str(s, overflow_checks) ==
    LET parts == split(s)
    IN  IF Len(parts) = 1 THEN from_str_whole(parts[1], overflow_checks)
        ELSE IF Len(parts) = 2 THEN from_str_fraction(parts[1], parts[2])
        ELSE Parsed("MultipleDots", None)

\* "{}" of a Money: its decimal digits.
RECURSIVE to_string(_)
to_string(n) ==
    IF n < 10 THEN <<Digits[n + 1]>>
    ELSE to_string(n \div 10) \o <<Digits[(n % 10) + 1]>>

\* "{:0width$}" of a Money: its decimal digits, zero-padded to width.
zero_padded(n, width) ==
    LET d == to_string(n)
    IN  IF Len(d) >= width THEN d
        ELSE [i \in 1..(width - Len(d)) |-> "0"] \o d

\* strip_zeros as it would be if it left the trailing zeros in place.
keep_zeros(fp, width) == [fp |-> fp, width |-> width]

\* The while loop of fmt: fp without its trailing zeros, width less by each.
RECURSIVE strip_zeros(_, _)
strip_zeros(fp, width) ==
    IF fp % 10 = 0 THEN strip_zeros(fp \div 10, width - 1)
    ELSE [fp |-> fp, width |-> width]

\* <Amount as Display>::fmt
fmt(x) ==
    IF x % Scale > 0
    THEN LET f == strip_zeros(x % Scale, FractionDigits)
         IN  to_string(x \div Scale) \o <<".">> \o zero_padded(f.fp, f.width)
    ELSE to_string(x \div Scale)

\* ----------------------------------------------------------- process.rs
TxProcessingError ==
    {"AmountOverflow", "InsufficientFunds", "DepositNotFound",
     "TxAlreadyDisputed", "TxNotDisputed", "AccountLocked"}

\* Messages of the panics (expect / panic!) of process.rs.
PanicDuplicate == "duplicate transaction id"
PanicTotalTooBig == "invariant violated: total is too big"
PanicTotalLtAvailable == "invariant violated: total < available"
PanicNotEnoughHeld == "not enough money is held"
InvariantPanics == {PanicTotalTooBig, PanicTotalLtAvailable, PanicNotEnoughHeld}
Panics == InvariantPanics \cup {PanicDuplicate}

Tx(kind, c, t, a) == [kind |-> kind, client_id |-> c, tx_id |-> t, amount |-> a]

ClientNew == [available |-> 0, held |-> 0, locked |-> FALSE]

\* Client::total: None stands for the panic of the expect.
total(cl) == checked_add(cl.available, cl.held)

\* The Client methods return the client after the call and the result:
\* "Ok", a TxProcessingError, or the message of the panic that ended it.
\* deposit as it would be if its guard looked at available and not at total.
deposit_guards_available(cl, amount) ==
    IF checked_add(cl.available, amount) # None
    THEN [cl |-> [cl EXCEPT !.available = checked_add(@, amount)], res |-> "Ok"]
    ELSE [cl |-> cl, res |-> "AmountOverflow"]

\* deposit as it would be with a wrapping add in place of the checked ones.
deposit_wraps(cl, amount) ==
    [cl |-> [cl EXCEPT !.available = (@ + amount) % (MoneyMax + 1)], res |-> "Ok"]

deposit(cl, amount) ==
    IF total(cl) = None
    THEN [cl |-> cl, res |-> PanicTotalTooBig]
    ELSE IF checked_add(total(cl), amount) # None
         THEN IF checked_add(cl.available, amount) = None
              THEN [cl |-> cl, res |-> PanicTotalLtAvailable]
              ELSE [cl |-> [cl EXCEPT !.available = checked_add(@, amount)],
                    res |-> "Ok"]
         ELSE [cl |-> cl, res |-> "AmountOverflow"]

withdraw(cl, amount) ==
    IF checked_sub(cl.available, amount) # None
    THEN [cl |-> [cl EXCEPT !.available = checked_sub(@, amount)], res |-> "Ok"]
    ELSE [cl |-> cl, res |-> "InsufficientFunds"]

\* dispute as it would be if it held the amount without taking it from available.
dispute_keeps_available(cl, amount) ==
    IF checked_sub(cl.available, amount) # None
    THEN IF checked_add(cl.held, amount) = None
         THEN [cl |-> cl, res |-> PanicTotalTooBig]
         ELSE [cl |-> [cl EXCEPT !.held = checked_add(@, amount)], res |-> "Ok"]
    ELSE [cl |-> cl, res |-> "InsufficientFunds"]

dispute(cl, amount) ==
    IF checked_sub(cl.available, amount) # None
    THEN IF checked_add(cl.held, amount) = None
         THEN [cl |-> cl, res |-> PanicTotalTooBig]
         ELSE [cl |-> [cl EXCEPT !.held = checked_add(@, amount),
                                 !.available = checked_sub(@, amount)],
               res |-> "Ok"]
    ELSE [cl |-> cl, res |-> "InsufficientFunds"]

\* resolve as it would be if it released the hold without crediting available.
resolve_forgets_available(cl, amount) ==
    IF checked_sub(cl.held, amount) = None
    THEN [cl |-> cl, res |-> PanicNotEnoughHeld]
    ELSE [cl |-> [cl EXCEPT !.held = checked_sub(@, amount)], res |-> "Ok"]

resolve(cl, amount) ==
    IF checked_add(cl.available, amount) = None
    THEN [cl |-> cl, res |-> PanicTotalTooBig]
    ELSE IF checked_sub(cl.held, amount) = None
         THEN [cl |-> [cl EXCEPT !.available = checked_add(@, amount)],
               res |-> PanicNotEnoughHeld]
         ELSE [cl |-> [cl EXCEPT !.available = checked_add(@, amount),
                                 !.held = checked_sub(@, amount)],
               res |-> "Ok"]

\* chargeback as it would be if it took the held funds without locking.
chargeback_keeps_unlocked(cl, amount) ==
    IF checked_sub(cl.held, amount) = None
    THEN [cl |-> cl, res |-> PanicNotEnoughHeld]
    ELSE [cl |-> [cl EXCEPT !.held = checked_sub(@, amount)], res |-> "Ok"]

chargeback(cl, amount) ==
    IF checked_sub(cl.held, amount) = None
    THEN [cl |-> cl, res |-> PanicNotEnoughHeld]
    ELSE [cl |-> [cl EXCEPT !.held = checked_sub(@, amount), !.locked = TRUE],
          res |-> "Ok"]

VARIABLES
    clients,      \* TxProcessor.clients: ClientID -> Client
    deposits,     \* TxProcessor.deposits: ClientID -> (TxID -> Amount)
    disputed,     \* TxProcessor.disputed: set of TxID
    panicked,     \* "none", or the message of the panic that ended the run
    pc,           \* main: "reading" the records, or "done"
    summaries,    \* what client_summaries() yielded to main
    nread,        \* number of records main handed to process(), modulo 2: it
                  \* makes every call a step, also one that changes nothing else
    lastResult,   \* result of the latest process() call: "Ok", an error, a panic
    \* History of the run, read by the properties only.
    ref,          \* per client, the reference model of prop_amounts_are_correct
    referenced,   \* the ClientIDs of the events handed to process() so far
    depositIds,   \* SpecOne: the TxIDs the stream has used for its Deposit events
    everLocked,   \* the clients whose account has been seen locked
    openDisputes, \* TxIDs whose latest Ok Dispute has no later Ok Resolve/Chargeback
    scen,         \* how many events of the scenario the run has replayed, or -1
    solo,         \* SpecSolo: per client, an engine that is handed the events
                  \* of that client only, and whether its results were the same
    \* The Amount codec (SpecAmount).
    stage,        \* "off", or what is next: "fmt", "from_str", "end"
    given,        \* the Amount handed to fmt, or None
    text,         \* the text fmt wrote, or the text handed to from_str
    parsed        \* what from_str returned for text

vars == <<clients, deposits, disputed, panicked, pc, summaries, nread, lastResult,
          ref, referenced, depositIds, everLocked, openDisputes, scen, solo,
          stage, given, text, parsed>>
engine == <<clients, deposits, disputed, panicked, pc, summaries, nread, lastResult,
            depositIds, solo>>
codec == <<stage, given, text, parsed>>
history == <<ref, referenced, everLocked, openDisputes, scen>>

\* clients.entry(client_id).or_insert(Client::new())
or_insert(cs, c) == IF c \in DOMAIN cs THEN cs ELSE (c :> ClientNew) @@ cs

\* client as it would be if it never looked at the locked flag.
client_ignores_lock(cs, c) == [clients |-> or_insert(cs, c), res |-> "Ok"]

\* TxProcessor::client: the map after the entry call, and Ok or AccountLocked.
client(cs, c) ==
    [clients |-> or_insert(cs, c),
     res |-> IF or_insert(cs, c)[c].locked THEN "AccountLocked" ELSE "Ok"]

\* TxProcessor::deposit_amount: None stands for Err(DepositNotFound).
deposit_amount(ds, c, t) ==
    IF c \notin DOMAIN ds THEN None
    ELSE IF t \notin DOMAIN ds[c] THEN None
    ELSE ds[c][t]

\* deposits.entry(client_id).or_insert(HashMap::new()).insert(tx_id, amount)
ledger_insert(ds, c, t, a) ==
    LET old == IF c \in DOMAIN ds THEN ds[c] ELSE <<>>
    IN  (c :> ((t :> a) @@ old)) @@ ds

Out(cs, ds, dd, res) == [clients |-> cs, deposits |-> ds, disputed |-> dd, res |-> res]

\* The arms of TxProcessor::process, as functions of the engine's state.
process_Deposit(cs, ds, dd, c, t, a) ==
    LET e == client(cs, c)
        r == deposit(e.clients[c], a)
    IN  IF e.res # "Ok" THEN Out(e.clients, ds, dd, e.res)
        ELSE IF r.res # "Ok" THEN Out(e.clients, ds, dd, r.res)
        ELSE Out([e.clients EXCEPT ![c] = r.cl], ledger_insert(ds, c, t, a), dd,
                 IF deposit_amount(ds, c, t) # None THEN PanicDuplicate ELSE "Ok")

\* The Withdrawal arm as it would be if it recorded its TxID in the ledger.
process_Withdrawal_records(cs, ds, dd, c, t, a) ==
    LET e == client(cs, c)
        r == withdraw(e.clients[c], a)
    IN  IF e.res # "Ok" THEN Out(e.clients, ds, dd, e.res)
        ELSE IF r.res # "Ok" THEN Out(e.clients, ds, dd, r.res)
        ELSE Out([e.clients EXCEPT ![c] = r.cl], ledger_insert(ds, c, t, a), dd, "Ok")

process_Withdrawal(cs, ds, dd, c, t, a) ==
    LET e == client(cs, c)
        r == withdraw(e.clients[c], a)
    IN  IF e.res # "Ok" THEN Out(e.clients, ds, dd, e.res)
        ELSE Out([e.clients EXCEPT ![c] = r.cl], ds, dd, r.res)

\* The Dispute arm as it would be if it asked for the account (and its lock)
\* before it looked at the disputed set.
process_Dispute_lock_first(cs, ds, dd, c, t) ==
    LET amount == deposit_amount(ds, c, t)
        e == client(cs, c)
        r == dispute(e.clients[c], amount)
    IN  IF amount = None THEN Out(cs, ds, dd, "DepositNotFound")
        ELSE IF e.res # "Ok" THEN Out(e.clients, ds, dd, e.res)
        ELSE IF t \in dd THEN Out(e.clients, ds, dd, "TxAlreadyDisputed")
        ELSE IF r.res # "Ok" THEN Out([e.clients EXCEPT ![c] = r.cl], ds, dd, r.res)
        ELSE Out([e.clients EXCEPT ![c] = r.cl], ds, dd \cup {t}, "Ok")

process_Dispute(cs, ds, dd, c, t) ==
    LET amount == deposit_amount(ds, c, t)
        e == client(cs, c)
        r == dispute(e.clients[c], amount)
    IN  IF amount = None THEN Out(cs, ds, dd, "DepositNotFound")
        ELSE IF t \in dd THEN Out(cs, ds, dd, "TxAlreadyDisputed")
        ELSE IF e.res # "Ok" THEN Out(e.clients, ds, dd, e.res)
        ELSE IF r.res # "Ok" THEN Out([e.clients EXCEPT ![c] = r.cl], ds, dd, r.res)
        ELSE Out([e.clients EXCEPT ![c] = r.cl], ds, dd \cup {t}, "Ok")

\* The Resolve arm as it would be if it left the TxID in the disputed set.
process_Resolve_keeps_disputed(cs, ds, dd, c, t) ==
    LET amount == deposit_amount(ds, c, t)
        e == client(cs, c)
        r == resolve(e.clients[c], amount)
    IN  IF amount = None THEN Out(cs, ds, dd, "DepositNotFound")
        ELSE IF t \notin dd THEN Out(cs, ds, dd, "TxNotDisputed")
        ELSE IF e.res # "Ok" THEN Out(e.clients, ds, dd, e.res)
        ELSE Out([e.clients EXCEPT ![c] = r.cl], ds, dd, r.res)

process_Resolve(cs, ds, dd, c, t) ==
    LET amount == deposit_amount(ds, c, t)
        e == client(cs, c)
        r == resolve(e.clients[c], amount)
    IN  IF amount = None THEN Out(cs, ds, dd, "DepositNotFound")
        ELSE IF t \notin dd THEN Out(cs, ds, dd, "TxNotDisputed")
        ELSE IF e.res # "Ok" THEN Out(e.clients, ds, dd \ {t}, e.res)
        ELSE Out([e.clients EXCEPT ![c] = r.cl], ds, dd \ {t}, r.res)

process_Chargeback(cs, ds, dd, c, t) ==
    LET amount == deposit_amount(ds, c, t)
        e == client(cs, c)
        r == chargeback(e.clients[c], amount)
    IN  IF amount = None THEN Out(cs, ds, dd, "DepositNotFound")
        ELSE IF t \notin dd THEN Out(cs, ds, dd, "TxNotDisputed")
        ELSE IF e.res # "Ok" THEN Out(e.clients, ds, dd \ {t}, e.res)
        ELSE Out([e.clients EXCEPT ![c] = r.cl], ds, dd \ {t}, r.res)

\* TxProcessor::process: the match on the event.
process(cs, ds, dd, tx) ==
    CASE tx.kind = "Deposit" ->
           process_Deposit(cs, ds, dd, tx.client_id, tx.tx_id, tx.amount)
      [] tx.kind = "Withdrawal" ->
           process_Withdrawal(cs, ds, dd, tx.client_id, tx.tx_id, tx.amount)
      [] tx.kind = "Dispute" -> process_Dispute(cs, ds, dd, tx.client_id, tx.tx_id)
      [] tx.kind = "Resolve" -> process_Resolve(cs, ds, dd, tx.client_id, tx.tx_id)
      [] tx.kind = "Chargeback" ->
           process_Chargeback(cs, ds, dd, tx.client_id, tx.tx_id)

\* TxProcessor::client_summaries: total is None where Client::total panics.
client_summaries(cs) ==
    {[id |-> c, available |-> cs[c].available, held |-> cs[c].held,
      total |-> total(cs[c]), locked |-> cs[c].locked] : c \in DOMAIN cs}

\* The reference model of the test prop_amounts_are_correct, kept per client:
\* it applies the events that process() answered with Ok. valid turns FALSE
\* where the test's assert or one of its unwrap()s would fail.
RefNew == [available |-> 0, held |-> 0, total |-> 0, locked |-> FALSE,
           deposit_amounts |-> <<>>, valid |-> TRUE]

ref_amount(r, t) == IF t \in DOMAIN r.deposit_amounts THEN r.deposit_amounts[t] ELSE None

ref_set(r, av, he, to, lo) ==
    [r EXCEPT !.available = av, !.held = he, !.total = to, !.locked = lo,
              !.valid = r.valid /\ ~r.locked /\ av # None /\ he # None /\ to # None]

ref_apply(r, tx) ==
    LET amount == ref_amount(r, tx.tx_id)
        found == [r EXCEPT !.valid = r.valid /\ amount # None]
    IN  CASE tx.kind = "Deposit" ->
               ref_set([r EXCEPT !.deposit_amounts = (tx.tx_id :> tx.amount) @@ @],
                       checked_add(r.available, tx.amount), r.held,
                       checked_add(r.total, tx.amount), r.locked)
          [] tx.kind = "Withdrawal" ->
               ref_set(r, checked_sub(r.available, tx.amount), r.held,
                       checked_sub(r.total, tx.amount), r.locked)
          [] tx.kind = "Dispute" ->
               ref_set(found, checked_sub(r.available, amount),
                       checked_add(r.held, amount), r.total, r.locked)
          [] tx.kind = "Resolve" ->
               ref_set(found, checked_add(r.available, amount),
                       checked_sub(r.held, amount), r.total, r.locked)
          [] tx.kind = "Chargeback" ->
               ref_set(found, r.available, checked_sub(r.held, amount),
                       checked_sub(r.total, amount), TRUE)

\* The end-to-end scenario: deposit,1,1,1.0; deposit,1,2,2.0; dispute,1,1;
\* withdrawal,1,3,1.5; resolve,1,1 (amounts in minor units of 0.0001).
Scenario ==
    <<Tx("Deposit", 1, 1, 10000), Tx("Deposit", 1, 2, 20000), Tx("Dispute", 1, 1, None),
      Tx("Withdrawal", 1, 3, 15000), Tx("Resolve", 1, 1, None)>>

\* An engine of its own for the events of one client: TxProcessor::new, and
\* no result that differs from the result of the shared engine so far.
SoloNew == [clients |-> <<>>, deposits |-> <<>>, disputed |-> {}, panicked |-> FALSE,
            same |-> TRUE]

\* The engine of the client of tx is handed tx, unless a panic has ended it.
SoloStep(tx) ==
    solo' = [solo EXCEPT ![tx.client_id] =
               IF @.panicked THEN [@ EXCEPT !.same = FALSE]
               ELSE LET o == process(@.clients, @.deposits, @.disputed, tx)
                    IN  [clients |-> o.clients, deposits |-> o.deposits,
                         disputed |-> o.disputed, panicked |-> o.res \in Panics,
                         same |-> @.same /\ o.res = lastResult']]

\* TxProcessor::new, and main before its first record.
InitEngine ==
    /\ clients = <<>>
    /\ deposits = <<>>
    /\ disputed = {}
    /\ panicked = "none"
    /\ pc = "reading"
    /\ summaries = {}
    /\ nread = 0
    /\ lastResult = "none"
    /\ ref = [c \in Clients |-> RefNew]
    /\ referenced = {}
    /\ depositIds = {}
    /\ everLocked = {}
    /\ openDisputes = {}
    /\ scen = 0
    /\ solo = [c \in Clients |-> SoloNew]

NotParsed == Parsed("none", None)

Init ==
    /\ InitEngine
    /\ stage = "off"
    /\ given = None
    /\ text = <<>>
    /\ parsed = NotParsed

\* What one iteration of the loop of main leaves behind: the engine as
\* process(&tx) left it (out), the result, and the history of the run.
Record(tx, out) ==
    /\ clients' = out.clients
    /\ deposits' = out.deposits
    /\ disputed' = out.disputed
    /\ lastResult' = out.res
    /\ panicked' = IF out.res \in Panics THEN out.res ELSE "none"
    /\ nread' = 1 - nread
    /\ ref' = IF out.res = "Ok"
              THEN [ref EXCEPT ![tx.client_id] = ref_apply(@, tx)]
              ELSE ref
    /\ referenced' = referenced \cup {tx.client_id}
    /\ everLocked' = everLocked \cup {c \in DOMAIN out.clients : out.clients[c].locked}
    /\ openDisputes' =
         IF out.res = "Ok" /\ tx.kind = "Dispute"
         THEN openDisputes \cup {tx.tx_id}
         ELSE IF out.res = "Ok" /\ tx.kind \in {"Resolve", "Chargeback"}
              THEN openDisputes \ {tx.tx_id}
              ELSE openDisputes
    /\ scen' = IF scen \in 0..(Len(Scenario) - 1) /\ tx = Scenario[scen + 1]
               THEN scen + 1 ELSE -1
    /\ UNCHANGED <<pc, summaries>>
    /\ UNCHANGED codec

\* main reads a record and hands it to process(); a panic ends the run.
Reading == pc = "reading" /\ panicked = "none"

Deposit(c, t, a) ==
    /\ Reading
    /\ Record(Tx("Deposit", c, t, a),
              process_Deposit(clients, deposits, disputed, c, t, a))

Withdrawal(c, t, a) ==
    /\ Reading
    /\ Record(Tx("Withdrawal", c, t, a),
              process_Withdrawal(clients, deposits, disputed, c, t, a))

Dispute(c, t) ==
    /\ Reading
    /\ Record(Tx("Dispute", c, t, None),
              process_Dispute(clients, deposits, disputed, c, t))

Resolve(c, t) ==
    /\ Reading
    /\ Record(Tx("Resolve", c, t, None),
              process_Resolve(clients, deposits, disputed, c, t))

Chargeback(c, t) ==
    /\ Reading
    /\ Record(Tx("Chargeback", c, t, None),
              process_Chargeback(clients, deposits, disputed, c, t))

\* main after the last record: the summaries are taken and written.
Summaries ==
    /\ Reading
    /\ pc' = "done"
    /\ summaries' = client_summaries(clients)
    /\ panicked' = IF \E s \in client_summaries(clients) : s.total = None
                   THEN PanicTotalTooBig ELSE "none"
    /\ UNCHANGED <<clients, deposits, disputed, nread, lastResult>>
    /\ UNCHANGED history
    /\ UNCHANGED codec

\* Any stream of events over two clients, then the summaries.
Next ==
    \/ \E c \in Clients, t \in TxIDs, a \in Amounts :
         Deposit(c, t, a) /\ UNCHANGED <<depositIds, solo>>
    \/ \E c \in Clients, t \in TxIDs, a \in Amounts :
         Withdrawal(c, t, a) /\ UNCHANGED <<depositIds, solo>>
    \/ \E c \in Clients, t \in TxIDs : Dispute(c, t) /\ UNCHANGED <<depositIds, solo>>
    \/ \E c \in Clients, t \in TxIDs : Resolve(c, t) /\ UNCHANGED <<depositIds, solo>>
    \/ \E c \in Clients, t \in TxIDs : Chargeback(c, t) /\ UNCHANGED <<depositIds, solo>>
    \/ Summaries /\ UNCHANGED <<depositIds, solo>>

Spec == Init /\ [][Next]_vars

\* Any stream of events addressed to one client in which the TxIDs of the
\* Deposit events are pairwise distinct (as Txs::arbitrary generates them),
\* then the summaries.
NextOne ==
    \/ \E c \in OneClient, t \in OneTxIDs \ depositIds, a \in OneAmounts :
         Deposit(c, t, a) /\ depositIds' = depositIds \cup {t} /\ UNCHANGED solo
    \/ \E c \in OneClient, t \in OneTxIDs, a \in OneAmounts :
         Withdrawal(c, t, a) /\ UNCHANGED <<depositIds, solo>>
    \/ \E c \in OneClient, t \in OneTxIDs : Dispute(c, t) /\ UNCHANGED <<depositIds, solo>>
    \/ \E c \in OneClient, t \in OneTxIDs : Resolve(c, t) /\ UNCHANGED <<depositIds, solo>>
    \/ \E c \in OneClient, t \in OneTxIDs : Chargeback(c, t) /\ UNCHANGED <<depositIds, solo>>
    \/ Summaries /\ UNCHANGED <<depositIds, solo>>

SpecOne == Init /\ [][NextOne]_vars

\* Any stream of events over two clients that share the TxIDs, each event
\* also handed to the engine that sees the events of its client only.
NextSolo ==
    \/ \E c \in Clients, t \in SoloTxIDs, a \in SoloAmounts :
         Deposit(c, t, a) /\ SoloStep(Tx("Deposit", c, t, a)) /\ UNCHANGED depositIds
    \/ \E c \in Clients, t \in SoloTxIDs, a \in SoloAmounts :
         Withdrawal(c, t, a) /\ SoloStep(Tx("Withdrawal", c, t, a))
           /\ UNCHANGED depositIds
    \/ \E c \in Clients, t \in SoloTxIDs :
         Dispute(c, t) /\ SoloStep(Tx("Dispute", c, t, None)) /\ UNCHANGED depositIds
    \/ \E c \in Clients, t \in SoloTxIDs :
         Resolve(c, t) /\ SoloStep(Tx("Resolve", c, t, None)) /\ UNCHANGED depositIds
    \/ \E c \in Clients, t \in SoloTxIDs :
         Chargeback(c, t) /\ SoloStep(Tx("Chargeback", c, t, None))
           /\ UNCHANGED depositIds
    \/ Summaries /\ UNCHANGED <<depositIds, solo>>

SpecSolo == Init /\ [][NextSolo]_vars

\* The texts handed to from_str.
Texts == UNION {[1..n -> Alphabet] : n \in 0..MaxLen}

\* Either a text to parse, or an Amount to write and to parse back (the
\* test prop_amount_ser_reversible).
InitAmount ==
    /\ InitEngine
    /\ parsed = NotParsed
    /\ \/ stage = "from_str" /\ text \in Texts /\ given = None
       \/ stage = "fmt" /\ given \in 0..MoneyMax /\ text = <<>>

\* let s = format!("{}", amount)
Format ==
    /\ stage = "fmt"
    /\ text' = fmt(given)
    /\ stage' = "from_str"
    /\ UNCHANGED <<given, parsed>>
    /\ UNCHANGED engine
    /\ UNCHANGED history

\* s.parse::<Amount>(), in a build with or without overflow checks.
Parse ==
    /\ stage = "from_str"
    /\ \E overflow_checks \in BOOLEAN : parsed' = from_str(text, overflow_checks)
    /\ stage' = "end"
    /\ UNCHANGED <<given, text>>
    /\ UNCHANGED engine
    /\ UNCHANGED history

NextAmount ==
    \/ Format
    \/ Parse

SpecAmount == InitAmount /\ [][NextAmount]_vars

\* ------------------------------------------------------------ properties
\* What the properties read of the state before a call.
InLedger(c, t) == c \in DOMAIN deposits /\ t \in DOMAIN deposits[c]
IsLocked(c) == c \in DOMAIN clients /\ clients[c].locked
AvailableOf(c) == IF c \in DOMAIN clients THEN clients[c].available ELSE 0
HeldOf(c) == IF c \in DOMAIN clients THEN clients[c].held ELSE 0
\* The step is a process() call (and not the taking of the summaries).
IsProcessCall == nread' # nread

\* C1: in every stream of events addressed to one client whose deposit TxIDs
\* are pairwise distinct, after every process() call the run has not aborted
\* and the client's summary has total = available + held, total equal to the
\* Ok deposits minus the Ok withdrawals minus the Ok chargebacks, and
\* available, held and locked equal to those of the reference model that
\* applies the Ok events only.
AmountsAreCorrect ==
    /\ panicked = "none"
    /\ \A s \in client_summaries(clients) :
         /\ ref[s.id].valid
         /\ s.total = s.available + s.held
         /\ s.total = ref[s.id].total
         /\ s.available = ref[s.id].available
         /\ s.held = ref[s.id].held
         /\ s.locked = ref[s.id].locked
    /\ \A c \in Clients \ DOMAIN clients : ref[c] = RefNew

\* A chargeback has just been applied while another dispute is still open
\* and part of the deposits is still available.
AmountsAreCorrectWitness ==
    /\ 1 \in DOMAIN clients
    /\ lastResult = "Ok"
    /\ clients[1].locked
    /\ clients[1].held > 0
    /\ clients[1].available > 0
    /\ ref[1].total = clients[1].available + clients[1].held

\* C2: once a client's account has been locked, every later process() call
\* for that client returns a TxProcessingError (never Ok, whatever the kind,
\* TxID and amount of the event).
ProcessFor(c) ==
    \E t \in TxIDs :
        \/ Dispute(c, t) \/ Resolve(c, t) \/ Chargeback(c, t)
        \/ \E a \in Amounts : Deposit(c, t, a) \/ Withdrawal(c, t, a)

LockMonotonicity ==
    [][\A c \in everLocked : ProcessFor(c) => lastResult' \in TxProcessingError]_vars

\* A call for a locked account has just been refused.
LockMonotonicityWitness ==
    /\ lastResult = "AccountLocked"
    /\ \E c \in everLocked : clients[c].locked

\* C3: between two Disputes that return Ok and carry the same TxID there is a
\* Resolve or Chargeback with that TxID that returned Ok: no Dispute returns
\* Ok for a TxID whose latest Ok Dispute is still open.
DisputeExclusivity ==
    [][\A t \in openDisputes :
          ~(lastResult' = "Ok" /\ \E c \in Clients : Dispute(c, t))]_vars

\* C4: a process() call that returns a TxProcessingError leaves every
\* account, the deposit ledger and the disputed set as they were, except
\* that it may create the zero-balance unlocked account of its client.
ErrorsAreSkipped ==
    [][(IsProcessCall /\ lastResult' \in TxProcessingError) =>
          /\ deposits' = deposits
          /\ disputed' = disputed
          /\ \A c \in DOMAIN clients' :
               clients'[c] = IF c \in DOMAIN clients THEN clients[c] ELSE ClientNew]_vars

\* C5 as claimed: the scenario deposit 1.0 (tx 1), deposit 2.0 (tx 2),
\* dispute tx 1, withdrawal 1.5 (tx 3), resolve tx 1, all of client 1 on an
\* empty engine, has the withdrawal return InsufficientFunds and ends with
\* the summary available = 3.0, held = 0, total = 3.0, locked = false.
ClaimedScenarioSummary ==
    {[id |-> 1, available |-> 30000, held |-> 0, total |-> 30000, locked |-> FALSE]}

EndToEndScenarioAsClaimed ==
    /\ scen = 4 => lastResult = "InsufficientFunds"
    /\ scen = 5 => client_summaries(clients) = ClaimedScenarioSummary

\* C5 (amended): in that scenario the withdrawal of 1.5 returns Ok (2.0 is
\* available while 1.0 is held), the resolve returns Ok, and the summary at
\* the end is available = 1.5, held = 0, total = 1.5, locked = false.
ScenarioSummary ==
    {[id |-> 1, available |-> 15000, held |-> 0, total |-> 15000, locked |-> FALSE]}

EndToEndScenario ==
    /\ scen = 3 => clients[1] = [available |-> 20000, held |-> 10000, locked |-> FALSE]
    /\ scen = 4 => lastResult = "Ok"
    /\ scen = 5 => /\ lastResult = "Ok"
                   /\ panicked = "none"
                   /\ client_summaries(clients) = ScenarioSummary
                   /\ pc = "done" => summaries = ScenarioSummary

\* The five events have been replayed and main has taken the summaries.
EndToEndScenarioWitness == scen = 5 /\ pc = "done"

\* C6: no process() or client_summaries() call reaches one of the
\* invariant-violation aborts.
NoInvariantPanic == panicked \notin InvariantPanics

\* C7: a Deposit whose TxID is the TxID of a deposit recorded in the ledger,
\* for the same or for any other client, aborts the engine whenever the
\* depositing account is not locked and the amount does not overflow.
DuplicateDepositIsFatal ==
    [][\A c \in Clients, t \in TxIDs, a \in Amounts :
          ( /\ \E c2 \in Clients : InLedger(c2, t)
            /\ ~IsLocked(c)
            /\ AvailableOf(c) + HeldOf(c) + a <= MoneyMax
            /\ Deposit(c, t, a) )
          => lastResult' = PanicDuplicate]_vars

\* C8: Resolve{client, tx} and Chargeback{client, tx} return DepositNotFound
\* if (client, tx) is not in the deposit ledger; otherwise TxNotDisputed if tx
\* is not in the disputed set; otherwise AccountLocked if the account is
\* locked; otherwise Ok.
ExpectedSettle(c, t) ==
    IF ~InLedger(c, t) THEN "DepositNotFound"
    ELSE IF t \notin disputed THEN "TxNotDisputed"
    ELSE IF IsLocked(c) THEN "AccountLocked"
    ELSE "Ok"

SettlePrecedence ==
    [][\A c \in Clients, t \in TxIDs :
          (Resolve(c, t) \/ Chargeback(c, t)) => lastResult' = ExpectedSettle(c, t)]_vars

\* C9: client_summaries() has exactly one entry for every ClientID that an
\* event passed to process() has referenced, whatever the kind and the
\* result of the event, each with total = available + held.
SummaryPerReferencedClient ==
    /\ {s.id : s \in client_summaries(clients)} = referenced
    /\ Cardinality(client_summaries(clients)) = Cardinality(referenced)
    /\ \A s \in client_summaries(clients) : s.total = s.available + s.held

\* C10: Dispute{client, tx} returns the first of DepositNotFound (not in the
\* ledger), TxAlreadyDisputed (tx in the disputed set), AccountLocked,
\* InsufficientFunds (deposit amount above available); otherwise Ok, and then
\* available goes down and held up by the deposit amount, tx joins the
\* disputed set, locked and everything else stay.
ExpectedDispute(c, t) ==
    IF ~InLedger(c, t) THEN "DepositNotFound"
    ELSE IF t \in disputed THEN "TxAlreadyDisputed"
    ELSE IF IsLocked(c) THEN "AccountLocked"
    ELSE IF deposits[c][t] > AvailableOf(c) THEN "InsufficientFunds"
    ELSE "Ok"

DisputeContract ==
    [][\A c \in Clients, t \in TxIDs :
          Dispute(c, t) =>
            /\ lastResult' = ExpectedDispute(c, t)
            /\ lastResult' = "Ok" =>
                 /\ clients' = [clients EXCEPT
                                  ![c].available = @ - deposits[c][t],
                                  ![c].held = @ + deposits[c][t]]
                 /\ disputed' = disputed \cup {t}
                 /\ deposits' = deposits]_vars

\* Dispute{1, 1} has just returned Ok on the 1.0 deposit of client 1.
DisputeContractWitness ==
    /\ scen = 3
    /\ lastResult = "Ok"
    /\ 1 \in disputed
    /\ clients[1].held = 10000
    /\ clients[1].available = 20000

\* C11 as claimed: in every state the engine runs in, a call of process()
\* with Deposit{client, tx, amount} returns AccountLocked if the
\* account is locked; otherwise AmountOverflow exactly when available + held
\* + amount exceeds MoneyMax, and then balances and ledger stay; otherwise it
\* returns Ok, available goes up by amount, held and locked stay and
\* (client, tx) -> amount is recorded. The stored balances never wrap.
ExpectedDeposit(c, a) ==
    IF IsLocked(c) THEN "AccountLocked"
    ELSE IF AvailableOf(c) + HeldOf(c) + a > MoneyMax THEN "AmountOverflow"
    ELSE "Ok"

DepositEffects(c, t, a, out) ==
    /\ DOMAIN out.clients = DOMAIN clients \cup {c}
    /\ \A c2 \in DOMAIN clients \ {c} : out.clients[c2] = clients[c2]
    /\ out.clients[c].held = HeldOf(c)
    /\ out.clients[c].locked = IsLocked(c)
    /\ out.clients[c].available \in 0..MoneyMax
    /\ out.disputed = disputed
    /\ out.res \in {"AccountLocked", "AmountOverflow"} =>
         /\ out.clients[c].available = AvailableOf(c)
         /\ out.deposits = deposits
    /\ out.res \in {"Ok", PanicDuplicate} =>
         /\ out.clients[c].available = AvailableOf(c) + a
         /\ \A c2 \in Clients, t2 \in TxIDs :
              deposit_amount(out.deposits, c2, t2) =
                IF c2 = c /\ t2 = t THEN a ELSE deposit_amount(deposits, c2, t2)

DepositContractAsClaimed ==
    Reading =>
        \A c \in Clients, t \in TxIDs, a \in Amounts :
            LET out == process_Deposit(clients, deposits, disputed, c, t, a)
            IN  /\ out.res = ExpectedDeposit(c, a)
                /\ DepositEffects(c, t, a, out)

\* C11 (amended): as claimed, except that a Deposit that passes both guards
\* while (client, tx) is already in the ledger of that client does not
\* return: it credits available, overwrites the ledger entry and aborts the
\* engine with "duplicate transaction id".
DepositContract ==
    Reading =>
        \A c \in Clients, t \in TxIDs, a \in Amounts :
            LET out == process_Deposit(clients, deposits, disputed, c, t, a)
            IN  /\ out.res = IF ExpectedDeposit(c, a) = "Ok" /\ InLedger(c, t)
                             THEN PanicDuplicate
                             ELSE ExpectedDeposit(c, a)
                /\ DepositEffects(c, t, a, out)

\* A Deposit has just been refused with AmountOverflow on an unlocked account
\* that holds part of its funds.
DepositContractWitness ==
    /\ lastResult = "AmountOverflow"
    /\ \E c \in DOMAIN clients :
         /\ ~clients[c].locked
         /\ clients[c].held > 0
         /\ clients[c].available + clients[c].held + 20000 > MoneyMax

\* C12: Withdrawal{client, tx, amount} returns AccountLocked if the account
\* is locked, InsufficientFunds exactly when amount > available (held funds
\* do not count), and otherwise Ok, and then available goes down by amount;
\* held, locked, the ledger and the disputed set stay in every case. A TxID
\* that no Deposit event has used (so one used by withdrawals only) makes
\* every Dispute, Resolve and Chargeback return DepositNotFound.
ExpectedWithdrawal(c, a) ==
    IF IsLocked(c) THEN "AccountLocked"
    ELSE IF a > AvailableOf(c) THEN "InsufficientFunds"
    ELSE "Ok"

WithdrawalContract ==
    [][/\ \A c \in OneClient, t \in OneTxIDs, a \in OneAmounts :
            Withdrawal(c, t, a) =>
              /\ lastResult' = ExpectedWithdrawal(c, a)
              /\ clients' = IF lastResult' = "Ok"
                            THEN [or_insert(clients, c) EXCEPT ![c].available = @ - a]
                            ELSE or_insert(clients, c)
              /\ deposits' = deposits
              /\ disputed' = disputed
       /\ \A c \in OneClient, t \in OneTxIDs \ depositIds :
            (Dispute(c, t) \/ Resolve(c, t) \/ Chargeback(c, t)) =>
              lastResult' = "DepositNotFound"]_vars

\* The withdrawal of 1.5 with TxID 3 has just been paid out of the 2.0
\* available while 1.0 is held, and TxID 3 is in no ledger.
WithdrawalContractWitness ==
    /\ scen = 4
    /\ lastResult = "Ok"
    /\ clients[1] = [available |-> 5000, held |-> 10000, locked |-> FALSE]
    /\ 3 \notin depositIds
    /\ ~InLedger(1, 3)

\* C13: a Chargeback that returns Ok takes the deposit amount from held,
\* leaves available as it is, removes tx from the disputed set and sets
\* locked; an account becomes locked only in a step that is a Chargeback for
\* it that returns Ok; and a locked account is locked after every step.
ChargebackLocks ==
    [][/\ \A c \in Clients, t \in TxIDs :
            (Chargeback(c, t) /\ lastResult' = "Ok") =>
              /\ clients' = [clients EXCEPT ![c].held = @ - deposits[c][t],
                                            ![c].locked = TRUE]
              /\ ~clients[c].locked
              /\ disputed' = disputed \ {t}
              /\ t \in disputed
              /\ deposits' = deposits
       /\ \A c \in DOMAIN clients' :
            (clients'[c].locked /\ ~IsLocked(c)) =>
              /\ lastResult' = "Ok"
              /\ \E t \in TxIDs : Chargeback(c, t)
       /\ \A c \in DOMAIN clients :
            clients[c].locked => (c \in DOMAIN clients' /\ clients'[c].locked)]_vars

\* The only account there is has just been locked by a Chargeback that
\* returned Ok and left part of the funds available.
ChargebackLocksWitness ==
    /\ lastResult = "Ok"
    /\ \E c \in Clients :
         /\ DOMAIN clients = {c}
         /\ clients[c].locked
         /\ clients[c].held = 0
         /\ clients[c].available > 0
         /\ disputed = {}

\* What the claims on the codec say of a text, in their own terms.
DotCount(s) == Cardinality({i \in 1..Len(s) : s[i] = "."})
DigitOnly(s) == \A i \in 1..Len(s) : IsDigit(s[i])
BeforeDot(s) ==
    IF DotCount(s) = 0 THEN s
    ELSE SubSeq(s, 1, (CHOOSE i \in 1..Len(s) : s[i] = ".") - 1)
IntegerPart(s) ==
    IF BeforeDot(s) # <<>> /\ BeforeDot(s)[1] = "+" THEN Tail(BeforeDot(s))
    ELSE BeforeDot(s)
FractionPart(s) ==
    IF DotCount(s) = 0 THEN <<>>
    ELSE SubSeq(s, (CHOOSE i \in 1..Len(s) : s[i] = ".") + 1, Len(s))
Significant(s) == trim_end_matches(s, "0")
InGrammar(s) ==
    /\ DotCount(s) <= 1
    /\ DigitOnly(IntegerPart(s))
    /\ DigitOnly(FractionPart(s))
    /\ Len(Significant(FractionPart(s))) <= 4
FractionalUnits(s) ==
    digits_value(Significant(FractionPart(s))
                 \o [i \in 1..(4 - Len(Significant(FractionPart(s)))) |-> "0"])
ClaimedUnits(s) == digits_value(IntegerPart(s)) * 10000 + FractionalUnits(s)

\* C14: for a text whose integer and fractional parts are digit strings
\* from_str never crashes; it returns TooLarge when integer_part * 10000 +
\* fractional_units exceeds MoneyMax; and when it accepts the text its
\* result is integer_part * 10000 + fractional_units.
ParseOverflowIsTooLarge ==
    (stage = "end" /\ given = None /\ InGrammar(text)) =>
        /\ parsed.res # PanicMultiply
        /\ ClaimedUnits(text) > MoneyMax => parsed.res = "TooLarge"
        /\ parsed.res = "Ok" => parsed.amount = ClaimedUnits(text)

\* C15: for every Amount a from 0 to MoneyMax, from_str of the text that fmt
\* writes for a returns Ok(a), in every build.
RoundTrip ==
    (stage = "end" /\ given # None) => parsed = Parsed("Ok", given)

\* The largest Amount has been written with its four fractional digits and
\* read back.
RoundTripWitness ==
    /\ stage = "end"
    /\ given = MoneyMax
    /\ DotCount(text) = 1
    /\ Len(FractionPart(text)) = 4
    /\ parsed.res = "Ok"

\* C16: from_str accepts a text only if it is in the grammar (optional "+",
\* digit-only integer part, at most one "." and then a digit-only fraction
\* of at most 4 digits once its trailing zeros are dropped); a text with "-"
\* is rejected; two dots or more give MultipleDots; with one dot and a valid
\* integer part, a digit-only fraction of more than 4 significant digits
\* gives TooPrecise; with at most one dot, a non-digit in the integer part,
\* or in a fraction of at most 4 significant characters, gives Parse.
ParseGrammar ==
    (stage = "end" /\ given = None) =>
        /\ parsed.res = "Ok" => InGrammar(text)
        /\ (\E i \in 1..Len(text) : text[i] = "-") =>
             parsed.res \in ParseAmountError
        /\ DotCount(text) > 1 => parsed.res = "MultipleDots"
        /\ ( /\ DotCount(text) = 1
             /\ DigitOnly(IntegerPart(text))
             /\ digits_value(IntegerPart(text)) <= MoneyMax
             /\ DigitOnly(FractionPart(text))
             /\ Len(Significant(FractionPart(text))) > 4 )
           => parsed.res = "TooPrecise"
        /\ ( /\ DotCount(text) <= 1
             /\ \/ ~DigitOnly(IntegerPart(text))
                \/ /\ ~DigitOnly(FractionPart(text))
                   /\ Len(Significant(FractionPart(text))) <= 4 )
           => parsed.res = "Parse"

\* C17: fmt writes the decimal text of u div 10000 and, only when u mod
\* 10000 is not 0, a "." and the 4-digit zero-padded text of u mod 10000
\* without its trailing zeros: 0 -> "0", 12300 -> "1.23", 1234 -> "0.1234",
\* 100 -> "0.01".
ClaimedFormat(u) ==
    IF u % 10000 = 0 THEN to_string(u \div 10000)
    ELSE to_string(u \div 10000) \o <<".">>
           \o Significant(zero_padded(u % 10000, 4))

FormatContract ==
    (stage \in {"from_str", "end"} /\ given # None) =>
        /\ text = ClaimedFormat(given)
        /\ given = 0 => text = <<"0">>
        /\ given = 12300 => text = <<"1", ".", "2", "3">>
        /\ given = 1234 => text = <<"0", ".", "1", "2", "3", "4">>
        /\ given = 100 => text = <<"0", ".", "0", "1">>

\* fmt has just written "1.23" for 12300.
FormatContractWitness ==
    /\ stage = "from_str"
    /\ given = 12300
    /\ text = <<"1", ".", "2", "3">>

\* C18: as long as the engine runs, the held of every client is the sum of
\* the ledger amounts of the client's TxIDs that are in the disputed set.
RECURSIVE SumAmounts(_, _)
SumAmounts(f, S) ==
    IF S = {} THEN 0
    ELSE LET t == CHOOSE x \in S : TRUE
         IN  f[t] + SumAmounts(f, S \ {t})

DisputedOf(c) == IF c \in DOMAIN deposits THEN disputed \cap DOMAIN deposits[c] ELSE {}

HeldMatchesDisputes ==
    panicked = "none" =>
        \A c \in DOMAIN clients :
            clients[c].held = SumAmounts(deposits[c], DisputedOf(c))

\* C19: the result of every event of a client, and the summary of the
\* client, are those of an engine that is handed the events of that client
\* only.
SummaryOf(cs, c) == IF c \in DOMAIN cs THEN cs[c] ELSE ClientNew

IndependentAccounts ==
    \A c \in Clients :
        /\ solo[c].same
        /\ panicked = "none" => SummaryOf(clients, c) = SummaryOf(solo[c].clients, c)

\* C20: in every state the engine runs in, or has taken its summaries in,
\* every account has available and held in 0..MoneyMax and available + held
\* <= MoneyMax, so that its total is representable.
BalancesRepresentable ==
    panicked \notin InvariantPanics =>
        \A c \in DOMAIN clients :
            /\ clients[c].available \in 0..MoneyMax
            /\ clients[c].held \in 0..MoneyMax
            /\ clients[c].available + clients[c].held <= MoneyMax
            /\ total(clients[c]) = clients[c].available + clients[c].held

\* An account is filled to within one deposit of MoneyMax, part of it held,
\* and a further Deposit has just been refused.
BalancesRepresentableWitness ==
    /\ lastResult = "AmountOverflow"
    /\ \E c \in DOMAIN clients :
         /\ clients[c].held > 0
         /\ clients[c].available > 0
         /\ clients[c].available + clients[c].held + 10000 > MoneyMax

\* C21: in every state the engine runs in, if process() with Dispute{client,
\* tx} returns Ok, then process() with Resolve{client, tx} called next
\* returns Ok and leaves every account, the ledger and the disputed set as
\* they were before the Dispute, and a further Dispute{client, tx} called
\* after it returns Ok.
AfterDispute(c, t) == process_Dispute(clients, deposits, disputed, c, t)
AfterResolve(c, t) ==
    process_Resolve(AfterDispute(c, t).clients, AfterDispute(c, t).deposits,
                    AfterDispute(c, t).disputed, c, t)

DisputeResolveIdentity ==
    Reading =>
        \A c \in Clients, t \in TxIDs :
            AfterDispute(c, t).res = "Ok" =>
                /\ AfterResolve(c, t).res = "Ok"
                /\ AfterResolve(c, t).clients = clients
                /\ AfterResolve(c, t).deposits = deposits
                /\ AfterResolve(c, t).disputed = disputed
                /\ process_Dispute(AfterResolve(c, t).clients, AfterResolve(c, t).deposits,
                                   AfterResolve(c, t).disputed, c, t).res = "Ok"

\* A Dispute of the 1.0 deposit of client 1 would return Ok while the 2.0
\* deposit of the same client is under dispute, and the Resolve after it
\* gives the funds back.
DisputeResolveIdentityWitness ==
    /\ Reading
    /\ 1 \in DOMAIN clients
    /\ clients[1] = [available |-> 10000, held |-> 20000, locked |-> FALSE]
    /\ disputed = {2}
    /\ AfterDispute(1, 1).res = "Ok"
    /\ AfterDispute(1, 1).clients[1].held = 30000
    /\ AfterResolve(1, 1).clients[1].available = 10000

====
